---- MODULE Spec2Model ----
(***************************************************************************)
(* rename_tool: bulk renaming of the top-level subdirectories of a         *)
(* directory through a CSV file (src/src/main.rs).                         *)
(*                                                                         *)
(* A process is one invocation of main.  The filesystem (the target        *)
(* directory's entries and the CSV files) outlives the process, so a       *)
(* behaviour runs the command lines of `script` one after the other.       *)
(*                                                                         *)
(* Strings the code looks into (names, CSV fields) are sequences of        *)
(* characters, so that trim and the lossy conversion are computed.         *)
(* A CSV file is held at the level of the csv crate's records: each record *)
(* is what the reader yields for it, Ok(fields) or Err.                    *)
(***************************************************************************)
EXTENDS Naturals, Sequences, FiniteSets

VARIABLES
    script,   \* command lines still to be run, each the arguments after the program name
    prev,     \* the process before the current one: its arguments and exit status
    argv,     \* arguments of the current (or last) process
    pc,       \* "shell" | "export" | "export_loop" | "import" | "import_loop" | "exited"
    status,   \* exit status of the last process: 0, 1, or 2 while it runs / before any ran
    output,   \* what the current process printed, in order
    dir,      \* the directory D: entry name -> "dir" | "file"
    files,    \* the files outside D: path -> sequence of CSV records, or Absent
    dir0,     \* D when the current process started
    files0,   \* the files when the current process started
    dirPath,  \* export/import: directory_path
    csvPath,  \* export: output_csv_path; import: input_csv
    entries,  \* export: entries of read_dir not yet yielded
    unread,   \* export: entries whose read_dir item was an Err (skipped by flatten)
    wbuf,     \* export: records held by the csv writer, not yet flushed
    index     \* import: number of data records already taken from the reader

vars == <<script, prev, argv, pc, status, output, dir, files, dir0, files0,
          dirPath, csvPath, entries, unread, wbuf, index>>

---------------------------------------------------------------------------
(* Bounds *)

MaxArgs == 4

MaxEntries == 2

MaxRows == 3

---------------------------------------------------------------------------
(* Strings *)

old_name == <<"o", "l", "d", "_", "n", "a", "m", "e">>
new_name == <<"n", "e", "w", "_", "n", "a", "m", "e">>
foo == <<"f", "o", "o">>
bar == <<"b", "a", "r">>
a == <<"a">>
b == <<"b">>
c == <<"c">>
missing == <<"m", "i", "s", "s", "i", "n", "g">>
existing == <<"e", "x", "i", "s", "t", "i", "n", "g">>
\* a directory name that is not valid UTF-8: the single byte 0xFF
raw == <<"xFF">>

Whitespace == {" ", "\t"}
InvalidBytes == {"xFF"}

RECURSIVE TrimStart(_)
TrimStart(s) ==
    IF s # <<>> /\ Head(s) \in Whitespace THEN TrimStart(Tail(s)) ELSE s

RECURSIVE TrimEnd(_)
TrimEnd(s) ==
    IF s # <<>> /\ s[Len(s)] \in Whitespace
    THEN TrimEnd(SubSeq(s, 1, Len(s) - 1))
    ELSE s

\* str::trim left out: the field as it is
TrimNone(s) == s

\* str::trim
Trim(s) == TrimEnd(TrimStart(s))

\* a conversion that drops the invalid bytes instead of replacing them
ToStringLossyDrops(s) ==
    LET F[i \in 0..Len(s)] ==
            IF i = 0 THEN <<>>
            ELSE IF s[i] \in InvalidBytes THEN F[i - 1] ELSE Append(F[i - 1], s[i])
    IN  F[Len(s)]

\* OsStr::to_string_lossy: every invalid byte becomes U+FFFD
ToStringLossy(s) ==
    [i \in 1..Len(s) |-> IF s[i] \in InvalidBytes THEN "uFFFD" ELSE s[i]]

---------------------------------------------------------------------------
(* Option, and the csv crate's records *)

None == <<>>
Some(x) == <<x>>
UnwrapOr(opt, default) == IF opt = None THEN default ELSE opt[1]

Ok(fields) == [ok |-> TRUE, fields |-> fields]
Err == [ok |-> FALSE, fields |-> <<>>]

\* StringRecord::get, 0-based
Get(fields, i) == IF i + 1 <= Len(fields) THEN Some(fields[i + 1]) ELSE None

---------------------------------------------------------------------------
(* Filesystem *)

\* a regular file holding CSV records, and no file at all
File(records) == [exists |-> TRUE, records |-> records]
Absent == [exists |-> FALSE, records |-> <<>>]

Kinds == {"dir", "file"}

FilePaths == {"F", "N", "folders.csv"}

\* what a path names: "/D" is the directory D (an absolute path), the others
\* are relative paths of files beside it
PathKind(fs, path) ==
    IF path = "/D" THEN "dir"
    ELSE IF path \in FilePaths /\ fs[path].exists THEN "file"
    ELSE "none"

IsAbsolute(path) == path = "/D"

\* resolve_path: an absolute path as it is, a relative one joined to the current
\* directory (it then names the same file), None when the process exits because
\* the current directory cannot be determined
ResolvePath(path, cwdOk) ==
    IF IsAbsolute(path) THEN Some(path)
    ELSE IF cwdOk THEN Some(path)
    ELSE None

\* csv::Writer::from_path can create or truncate a file, never a directory
CanCreate(path) == path \in FilePaths

\* Path::is_dir where Path::exists is meant: a regular file is not seen
EntryExistsDirOnly(d, name) == name \in DOMAIN d /\ d[name] = "dir"

\* Path::is_dir / Path::exists of D.join(name)
EntryIsDir(d, name) == name \in DOMAIN d /\ d[name] = "dir"
EntryExists(d, name) == name \in DOMAIN d

\* a copy instead of a rename: the entry old stays
RenameKeepsOld(d, old, new) ==
    [n \in DOMAIN d \cup {new} |-> IF n = new THEN d[old] ELSE d[n]]

\* fs::rename(D/old, D/new) when it succeeds: the entry old is now named new,
\* taking the place of an entry new
Rename(d, old, new) ==
    [n \in (DOMAIN d \ {old}) \cup {new} |-> IF n = new THEN d[old] ELSE d[n]]

---------------------------------------------------------------------------
(* Output *)

EXPORT_USAGE == "Usage: rename_tool export <directory_path> [output_csv]"
IMPORT_USAGE == "Usage: rename_tool import <directory_path> <input_csv>"

Msg(stream, text, row, old, new) ==
    [stream |-> stream, text |-> text, row |-> row, old |-> old, new |-> new]

Eprintln(text) == Msg("stderr", text, 0, <<>>, <<>>)
Println(text) == Msg("stdout", text, 0, <<>>, <<>>)
EprintlnRow(text, row, old, new) == Msg("stderr", text, row, old, new)
PrintlnRow(text, row, old, new) == Msg("stdout", text, row, old, new)

---------------------------------------------------------------------------
(* main *)

NoCommandUsage == <<Eprintln(EXPORT_USAGE), Eprintln(IMPORT_USAGE)>>
\* both usage lines where main prints the export line alone
ExportUsageBoth == <<Eprintln(EXPORT_USAGE), Eprintln(IMPORT_USAGE)>>

ExportUsage == <<Eprintln(EXPORT_USAGE)>>
ImportUsage == <<Eprintln(IMPORT_USAGE)>>
UnknownCommandUsage == <<Eprintln(EXPORT_USAGE), Eprintln(IMPORT_USAGE)>>

DefaultOutputCsv == "folders.csv"

\* std::process::exit(code) after printing msgs
Exit(code, msgs) ==
    /\ pc' = "exited"
    /\ status' = code
    /\ output' = output \o msgs

\* main, up to its call of export or import
Main ==
    /\ pc \in {"shell", "exited"}
    /\ script # <<>>
    /\ script' = Tail(script)
    /\ prev' = [argv |-> argv, status |-> status]
    /\ argv' = Head(script)
    /\ dir0' = dir
    /\ files0' = files
    /\ entries' = {}
    /\ unread' = {}
    /\ wbuf' = <<>>
    /\ index' = 0
    /\ UNCHANGED <<dir, files>>
    /\ LET args == Head(script)
           Usage(msgs) ==
               /\ pc' = "exited"
               /\ status' = 1
               /\ output' = msgs
               /\ dirPath' = ""
               /\ csvPath' = ""
           Call(fn, directory_path, csv) ==
               /\ pc' = fn
               /\ status' = 2
               /\ output' = <<>>
               /\ dirPath' = directory_path
               /\ csvPath' = csv
       IN  IF Len(args) = 0 THEN Usage(NoCommandUsage)
           ELSE IF args[1] = "export" THEN
               IF Len(args) < 2 THEN Usage(ExportUsage)
               ELSE IF Len(args) > 3 THEN Usage(ExportUsage)
               ELSE Call("export", args[2],
                         IF Len(args) >= 3 THEN args[3] ELSE DefaultOutputCsv)
           ELSE IF args[1] = "import" THEN
               IF Len(args) < 2 THEN Usage(ImportUsage)
               ELSE IF Len(args) < 3 THEN Usage(ImportUsage)
               ELSE IF Len(args) > 3 THEN Usage(ImportUsage)
               ELSE Call("import", args[2], args[3])
           ELSE Usage(UnknownCommandUsage)

---------------------------------------------------------------------------
(* export *)

\* an export header that import would accept
HeaderRecordBoth == Ok(<<old_name, new_name>>)

HeaderRecord == Ok(<<old_name>>)

\* DirEntry::path().file_name() of an entry read_dir yields
FileName(name) == Some(name)

\* export opening (creating, truncating) the output before it checks the directory
ExportStartOpenFirst ==
    /\ pc = "export"
    /\ UNCHANGED <<script, prev, argv, dir, dir0, files0, dirPath, csvPath, unread, index>>
    /\ \E env \in [cwd : BOOLEAN, read_dir : BOOLEAN, create : BOOLEAN, write : BOOLEAN] :
         LET resolved_path == ResolvePath(dirPath, env.cwd)
             created == CanCreate(csvPath) /\ env.create
             opened == IF created THEN [files EXCEPT ![csvPath] = File(<<>>)] ELSE files
             Fatal(text) ==
                 /\ Exit(1, <<Eprintln(text)>>)
                 /\ files' = opened
                 /\ UNCHANGED <<entries, wbuf>>
         IN  IF ~created THEN Fatal("Failed to create CSV")
             ELSE IF resolved_path = None THEN Fatal("Failed to get current directory")
             ELSE IF PathKind(files, resolved_path[1]) # "dir"
                 THEN Fatal("Not a valid directory")
             ELSE IF ~env.read_dir THEN Fatal("Failed to read directory")
             ELSE IF ~env.write THEN Fatal("Failed to write CSV header")
             ELSE
                 /\ files' = opened
                 /\ wbuf' = <<HeaderRecord>>
                 /\ entries' = DOMAIN dir
                 /\ pc' = "export_loop"
                 /\ UNCHANGED <<status, output>>

\* export, up to its loop over the entries
ExportStart ==
    /\ pc = "export"
    /\ UNCHANGED <<script, prev, argv, dir, dir0, files0, dirPath, csvPath, unread, index>>
    /\ \E env \in [cwd : BOOLEAN, read_dir : BOOLEAN, create : BOOLEAN, write : BOOLEAN] :
         LET resolved_path == ResolvePath(dirPath, env.cwd)
             Fatal(text) ==
                 /\ Exit(1, <<Eprintln(text)>>)
                 /\ UNCHANGED <<files, entries, wbuf>>
         IN  IF resolved_path = None THEN Fatal("Failed to get current directory")
             ELSE IF PathKind(files, resolved_path[1]) # "dir"
                 THEN Fatal("Not a valid directory")
             ELSE IF ~env.read_dir THEN Fatal("Failed to read directory")
             ELSE IF ~(CanCreate(csvPath) /\ env.create)
                 THEN Fatal("Failed to create CSV")
             ELSE IF ~env.write THEN
                 /\ Exit(1, <<Eprintln("Failed to write CSV header")>>)
                 /\ files' = [files EXCEPT ![csvPath] = File(<<>>)]
                 /\ UNCHANGED <<entries, wbuf>>
             ELSE
                 /\ files' = [files EXCEPT ![csvPath] = File(<<>>)]
                 /\ wbuf' = <<HeaderRecord>>
                 /\ entries' = DOMAIN dir
                 /\ pc' = "export_loop"
                 /\ UNCHANGED <<status, output>>

\* one iteration of export's loop; read_dir yields the entries in any order
ExportEntry ==
    /\ pc = "export_loop"
    /\ UNCHANGED <<script, prev, argv, dir, files, dir0, files0, dirPath, csvPath, index>>
    /\ \E name \in entries, readOk \in BOOLEAN, writeOk \in BOOLEAN :
         /\ entries' = entries \ {name}
         /\ IF ~readOk THEN
                \* an Err item: flatten drops it
                /\ unread' = unread \cup {name}
                /\ UNCHANGED <<pc, status, output, wbuf>>
            ELSE IF EntryIsDir(dir, name) /\ FileName(name) # None THEN
                IF writeOk THEN
                    /\ wbuf' = Append(wbuf, Ok(<<ToStringLossy(FileName(name)[1])>>))
                    /\ UNCHANGED <<pc, status, output, unread>>
                ELSE
                    /\ Exit(1, <<Eprintln("Failed to write CSV row")>>)
                    /\ UNCHANGED <<wbuf, unread>>
            ELSE UNCHANGED <<pc, status, output, wbuf, unread>>

\* export after its loop: flush and report
ExportFinish ==
    /\ pc = "export_loop"
    /\ entries = {}
    /\ UNCHANGED <<script, prev, argv, dir, dir0, files0, dirPath, csvPath, entries, unread,
                   wbuf, index>>
    /\ \E flushOk \in BOOLEAN :
         IF flushOk THEN
             /\ files' = [files EXCEPT ![csvPath] = File(wbuf)]
             /\ Exit(0, <<Println("Wrote CSV")>>)
         ELSE
             /\ Exit(1, <<Eprintln("Failed to flush CSV")>>)
             /\ UNCHANGED files

---------------------------------------------------------------------------
(* import *)

\* Reader::headers: the first record, an empty record for an empty file
Headers(file) == IF file.records = <<>> THEN Ok(<<>>) ELSE file.records[1]

\* Reader::records: the records after the header
Records(file) == IF file.records = <<>> THEN <<>> ELSE Tail(file.records)

\* a header check that looks at column 0 only
HeadersValidFirstOnly(headers) == Get(headers, 0) = Some(old_name)

\* the header check of import
HeadersValid(headers) ==
    ~(Get(headers, 0) # Some(old_name) \/ Get(headers, 1) # Some(new_name))

\* import's test for a row to skip as empty
IsEmptyRow(old, new) == old = <<>> \/ new = <<>>

\* import, up to its loop over the records
ImportStart ==
    /\ pc = "import"
    /\ UNCHANGED <<script, prev, argv, dir, files, dir0, files0, dirPath, csvPath, entries,
                   unread, wbuf>>
    /\ \E env \in [cwd : BOOLEAN, open : BOOLEAN] :
         LET resolved_directory == ResolvePath(dirPath, env.cwd)
             resolved_csv == ResolvePath(csvPath, env.cwd)
             Fatal(text) ==
                 /\ Exit(1, <<Eprintln(text)>>)
                 /\ UNCHANGED index
         IN  IF resolved_directory = None THEN Fatal("Failed to get current directory")
             ELSE IF PathKind(files, resolved_directory[1]) # "dir"
                 THEN Fatal("Not a valid directory")
             ELSE IF resolved_csv = None THEN Fatal("Failed to get current directory")
             ELSE IF PathKind(files, resolved_csv[1]) # "file"
                 THEN Fatal("Not a valid CSV file")
             ELSE IF ~env.open THEN Fatal("Failed to read CSV")
             ELSE IF ~Headers(files[csvPath]).ok THEN Fatal("Failed to read CSV headers")
             ELSE IF ~HeadersValid(Headers(files[csvPath]).fields)
                 THEN Fatal("Invalid CSV headers")
             ELSE
                 /\ pc' = "import_loop"
                 /\ index' = 0
                 /\ UNCHANGED <<status, output>>

\* the loop iteration with the target check before the source check
ImportRowTargetFirst ==
    /\ pc = "import_loop"
    /\ index < Len(Records(files[csvPath]))
    /\ index' = index + 1
    /\ UNCHANGED <<script, prev, argv, pc, status, files, dir0, files0, dirPath, csvPath,
                   entries, unread, wbuf>>
    /\ \E renameOk \in BOOLEAN :
         LET result == Records(files[csvPath])[index + 1]
             row == index + 2
             old == Trim(UnwrapOr(Get(result.fields, 0), <<>>))
             new == Trim(UnwrapOr(Get(result.fields, 1), <<>>))
             Skip(text, o, n) ==
                 /\ output' = Append(output, EprintlnRow(text, row, o, n))
                 /\ UNCHANGED dir
         IN  IF ~result.ok THEN Skip("Failed to read CSV row", <<>>, <<>>)
             ELSE IF IsEmptyRow(old, new)
                 THEN Skip("empty old_name or new_name", <<>>, <<>>)
             ELSE IF EntryExists(dir, new)
                 THEN Skip("target already exists", old, new)
             ELSE IF ~EntryIsDir(dir, old)
                 THEN Skip("source folder does not exist", old, new)
             ELSE IF ~renameOk THEN Skip("Failed to rename row", old, new)
             ELSE
                 /\ dir' = Rename(dir, old, new)
                 /\ output' = Append(output, PrintlnRow("Renamed", row, old, new))

\* one iteration of import's loop: the record at index, reported as row index + 2
ImportRow ==
    /\ pc = "import_loop"
    /\ index < Len(Records(files[csvPath]))
    /\ index' = index + 1
    /\ UNCHANGED <<script, prev, argv, pc, status, files, dir0, files0, dirPath, csvPath,
                   entries, unread, wbuf>>
    /\ \E renameOk \in BOOLEAN :
         LET result == Records(files[csvPath])[index + 1]
             row == index + 2
             old == Trim(UnwrapOr(Get(result.fields, 0), <<>>))
             new == Trim(UnwrapOr(Get(result.fields, 1), <<>>))
             Skip(text, o, n) ==
                 /\ output' = Append(output, EprintlnRow(text, row, o, n))
                 /\ UNCHANGED dir
         IN  IF ~result.ok THEN Skip("Failed to read CSV row", <<>>, <<>>)
             ELSE IF IsEmptyRow(old, new)
                 THEN Skip("empty old_name or new_name", <<>>, <<>>)
             ELSE IF ~EntryIsDir(dir, old)
                 THEN Skip("source folder does not exist", old, new)
             ELSE IF EntryExists(dir, new)
                 THEN Skip("target already exists", old, new)
             ELSE IF ~renameOk THEN Skip("Failed to rename row", old, new)
             ELSE
                 /\ dir' = Rename(dir, old, new)
                 /\ output' = Append(output, PrintlnRow("Renamed", row, old, new))

\* an exit status that counts the rows skipped or failed
ImportFinishStrict ==
    /\ pc = "import_loop"
    /\ index = Len(Records(files[csvPath]))
    /\ pc' = "exited"
    /\ status' = IF \E i \in 1..Len(output) : output[i].stream = "stderr" THEN 1 ELSE 0
    /\ UNCHANGED <<script, prev, argv, output, dir, files, dir0, files0, dirPath, csvPath,
                   entries, unread, wbuf, index>>

\* import after its loop: main returns, the process ends with status 0
ImportFinish ==
    /\ pc = "import_loop"
    /\ index = Len(Records(files[csvPath]))
    /\ pc' = "exited"
    /\ status' = 0
    /\ UNCHANGED <<script, prev, argv, output, dir, files, dir0, files0, dirPath, csvPath,
                   entries, unread, wbuf, index>>

---------------------------------------------------------------------------
(* Initial states: the command lines, the directory and the CSV file *)

SeqsUpTo(S, n) == UNION {[1..k -> S] : k \in 0..n}

Commands == {"export", "import", "rename"}
PathArgs == {"/D", "F", "N"}

ArgLists ==
    {<<>>} \cup {<<cmd>> \o rest : cmd \in Commands, rest \in SeqsUpTo(PathArgs, MaxArgs - 1)}

DiskNames == {a, existing, raw}

Dirs ==
    UNION {[S -> Kinds] : S \in {T \in SUBSET DiskNames : Cardinality(T) <= MaxEntries}}

RowSet ==
    { Ok(<<a, b>>),
      Ok(<<missing, c>>),
      Ok(<<a, existing>>),
      Ok(<< <<" ", "\t">>, b >>),
      Ok(<< <<" ">> \o existing, c \o <<"\t">> >>),
      Ok(<<a>>),
      Err }

HeaderSet ==
    { Ok(<<old_name, new_name>>),
      Ok(<<old_name, new_name, foo>>),
      Ok(<<foo, bar>>),
      Ok(<<old_name>>),
      Ok(<<new_name, old_name>>),
      Ok(<<old_name \o <<" ">>, new_name>>),
      Err }

SampleRows == {<<>>, <<Ok(<<a, b>>)>>, <<Ok(<<a, b>>), Ok(<<missing, c>>), Ok(<<a, existing>>)>>}

SampleCsv == File(<<Ok(<<old_name, new_name>>), Ok(<<a, b>>)>>)

InitFiles(f) == [p \in FilePaths |-> IF p = "F" THEN f ELSE Absent]

InitProcess ==
    /\ prev = [argv |-> <<>>, status |-> 2]
    /\ argv = <<>>
    /\ pc = "shell"
    /\ status = 2
    /\ output = <<>>
    /\ dir \in Dirs
    /\ dir0 = dir
    /\ files0 = files
    /\ dirPath = ""
    /\ csvPath = ""
    /\ entries = {}
    /\ unread = {}
    /\ wbuf = <<>>
    /\ index = 0

\* any one command line
InitCli ==
    /\ script \in {<<args>> : args \in ArgLists}
    /\ files = InitFiles(SampleCsv)
    /\ InitProcess

\* import of a well-headed CSV with any rows
InitImport ==
    /\ script = << <<"import", "/D", "F">> >>
    /\ files \in {InitFiles(File(<<Ok(<<old_name, new_name>>)>> \o rows)) :
                    rows \in SeqsUpTo(RowSet, MaxRows)}
    /\ InitProcess

\* import of a CSV with any header
InitHeader ==
    /\ script = << <<"import", "/D", "F">> >>
    /\ files \in {InitFiles(File(<<>>))}
                 \cup {InitFiles(File(<<h>> \o rows)) : h \in HeaderSet, rows \in SampleRows}
    /\ InitProcess

\* export, then import of a CSV
InitRoundTrip ==
    /\ script \in {<<e, i>> :
                     e \in {<<"export", "/D">>, <<"export", "/D", "F">>, <<"export", "/D", "N">>},
                     i \in {<<"import", "/D", p>> : p \in FilePaths}}
    /\ files = InitFiles(SampleCsv)
    /\ InitProcess

Init == InitCli \/ InitImport \/ InitHeader \/ InitRoundTrip

Next ==
    \/ Main
    \/ ExportStart
    \/ ExportEntry
    \/ ExportFinish
    \/ ImportStart
    \/ ImportRow
    \/ ImportFinish

Spec == Init /\ [][Next]_vars

---------------------------------------------------------------------------
(* Properties *)

Last(seq) == seq[Len(seq)]

BothUsageLines == <<Eprintln(EXPORT_USAGE), Eprintln(IMPORT_USAGE)>>

\* the current process is  import <directory> <csv>
IsImport == Len(argv) = 3 /\ argv[1] = "import"

\* the current process is  export <directory> [csv]
IsExport == Len(argv) \in 2..3 /\ argv[1] = "export"

\* the process ended on an environment failure: no current directory, or a
\* CSV file that could not be opened
EnvFailed ==
    /\ output # <<>>
    /\ output[1].text \in {"Failed to get current directory", "Failed to read CSV"}

\* the file's first record has old_name in column 0 and new_name in column 1
HeaderIsExact(file) ==
    /\ file.records # <<>>
    /\ file.records[1].ok
    /\ Len(file.records[1].fields) >= 2
    /\ file.records[1].fields[1] = old_name
    /\ file.records[1].fields[2] = new_name

\* a step of import's loop that takes one record
RowStep == pc = "import_loop" /\ pc' = "import_loop" /\ index' = index + 1

\* the record such a step takes (the header is the file's record 1)
CurRecord == files[csvPath].records[index + 2]

\* column k (from 1) of a record, the empty string when it has none
Col(rec, k) == IF Len(rec.fields) >= k THEN rec.fields[k] ELSE <<>>

Blank(field) == \A i \in 1..Len(field) : field[i] \in {" ", "\t"}

OldName == Trim(Col(CurRecord, 1))
NewName == Trim(Col(CurRecord, 2))

SubDirs(d) == {n \in DOMAIN d : d[n] = "dir"}

\* the directory after the renames that the messages out[i..] report
RECURSIVE Replay(_, _, _)
Replay(d, out, i) ==
    IF i > Len(out) THEN d
    ELSE Replay(IF out[i].text = "Renamed"
                THEN [n \in (DOMAIN d \ {out[i].old}) \cup {out[i].new} |->
                        IF n = out[i].new THEN d[out[i].old] ELSE d[n]]
                ELSE d,
                out, i + 1)

(* C1 as stated: a row whose target exists when it is processed leaves the
   directory as it is and is reported as "target already exists". *)
C1_Original ==
    [][(RowStep /\ CurRecord.ok /\ NewName # <<>> /\ NewName \in DOMAIN dir)
         => (dir' = dir /\ Last(output').text = "target already exists")]_vars

(* C1 amended: a row whose target exists (as a file or as a directory) when it
   is processed attempts no rename and leaves the directory as it is; it is
   reported as "target already exists" when old_name names an existing
   directory, as "source folder does not exist" when it does not, and as
   "empty old_name or new_name" when old_name is empty. *)
C1_NeverOverwrites ==
    [][(RowStep /\ CurRecord.ok /\ NewName # <<>> /\ NewName \in DOMAIN dir)
         => /\ dir' = dir
            /\ output' = Append(output, Last(output'))
            /\ Last(output').stream = "stderr"
            /\ Last(output').row = index + 2
            /\ Last(output').text =
                 IF OldName = <<>> THEN "empty old_name or new_name"
                 ELSE IF OldName \in DOMAIN dir /\ dir[OldName] = "dir"
                      THEN "target already exists"
                      ELSE "source folder does not exist"]_vars

C1_Witness ==
    /\ pc = "import_loop"
    /\ output # <<>>
    /\ Last(output).text = "target already exists"
    /\ Last(output).new \in DOMAIN dir
    /\ dir[Last(output).new] = "file"
    /\ dir = dir0

\* the import was given a directory, a CSV file and an exact header
ImportInputsValid ==
    /\ IsImport
    /\ argv[2] = "/D"
    /\ argv[3] \in FilePaths
    /\ files0[argv[3]].exists
    /\ HeaderIsExact(files0[argv[3]])

(* C2: an import that passed its fatal preconditions reports every data row
   once, in file order, keeps the renames of earlier rows, and ends with
   status 0 whatever happened to the rows. *)
C2_AllRowsProcessed ==
    (ImportInputsValid /\ pc \in {"import_loop", "exited"} /\ ~EnvFailed)
      => /\ Len(output) = index
         /\ \A i \in 1..Len(output) : output[i].row = i + 1
         /\ dir = Replay(dir0, output, 1)
         /\ files = files0
         /\ pc = "exited" =>
              /\ status = 0
              /\ index = Len(files0[argv[3]].records) - 1

C2_Witness ==
    /\ ImportInputsValid
    /\ pc = "exited"
    /\ status = 0
    /\ Len(output) = 3
    /\ output[1].text = "Failed to read CSV row"
    /\ output[2].text = "Renamed"
    /\ output[3].text = "source folder does not exist"
    /\ dir # dir0

(* C3: an import whose CSV header is not old_name, new_name in columns 0 and 1
   exits with status 1 before any row is processed and renames nothing; a
   header with further columns after these two is accepted. *)
C3_HeaderChecked ==
    (IsImport /\ argv[2] = "/D" /\ argv[3] \in FilePaths /\ files0[argv[3]].exists
       /\ pc # "import")
      => /\ ~HeaderIsExact(files0[argv[3]])
              => /\ pc = "exited"
                 /\ status = 1
                 /\ dir = dir0
                 /\ index = 0
                 /\ \A i \in 1..Len(output) : output[i].row = 0
         /\ (HeaderIsExact(files0[argv[3]]) /\ pc = "exited" /\ ~EnvFailed)
              => status = 0

C3_Witness ==
    /\ IsImport
    /\ pc = "exited"
    /\ status = 1
    /\ output = <<Eprintln("Invalid CSV headers")>>
    /\ Len(files0[argv[3]].records) >= 2
    /\ files0[argv[3]].records[1] = Ok(<<foo, bar>>)
    /\ files0[argv[3]].records[2] = Ok(<<a, b>>)
    /\ a \in SubDirs(dir)
    /\ b \notin DOMAIN dir

\* the current process imports the CSV that the process before it exported
RoundTrip ==
    /\ IsImport
    /\ argv[2] = "/D"
    /\ Len(prev.argv) \in 2..3
    /\ prev.argv[1] = "export"
    /\ prev.argv[2] = "/D"
    /\ prev.status = 0
    /\ argv[3] = IF Len(prev.argv) = 3 THEN prev.argv[3] ELSE "folders.csv"

(* C4 as stated: the import of the exported CSV skips every exported row with
   "target already exists" and leaves the set of directories as it was. *)
C4_Original ==
    (RoundTrip /\ pc = "exited" /\ ~EnvFailed)
      => /\ \A r \in 2..Len(files0[argv[3]].records) :
              \E i \in 1..Len(output) :
                  output[i].row = r /\ output[i].text = "target already exists"
         /\ SubDirs(dir) = SubDirs(dir0)

(* C4 amended: the import of the CSV that export wrote fails the header check
   (export writes the single header old_name): it exits with status 1
   reporting invalid headers, processes no row, attempts no rename, and leaves
   the directory as it was. *)
C4_RoundTripRejected ==
    (RoundTrip /\ pc \in {"import_loop", "exited"})
      => /\ pc = "exited"
         /\ status = 1
         /\ index = 0
         /\ \A i \in 1..Len(output) : output[i].row = 0
         /\ dir = dir0
         /\ ~EnvFailed => output = <<Eprintln("Invalid CSV headers")>>

C4_Witness ==
    /\ RoundTrip
    /\ pc = "exited"
    /\ output = <<Eprintln("Invalid CSV headers")>>
    /\ files0[argv[3]].records = <<Ok(<<old_name>>), Ok(<<a>>), Ok(<<existing>>)>>
    /\ SubDirs(dir) = {a, existing}

\* the scenario of C5, ended, with no rename failing
C5_Scenario ==
    /\ pc = "exited"
    /\ argv = <<"import", "/D", "F">>
    /\ status = 0
    /\ files0["F"].records =
         <<Ok(<<old_name, new_name>>), Ok(<<a, b>>), Ok(<<missing, c>>), Ok(<<a, existing>>)>>
    /\ {a, existing} \subseteq SubDirs(dir0)
    /\ b \notin DOMAIN dir0
    /\ missing \notin DOMAIN dir0
    /\ \A i \in 1..Len(output) : output[i].text # "Failed to rename row"

(* C5 as stated: row 1 renames a to b, row 2 is skipped for its missing source,
   row 3 is skipped because its target exists; the directory ends with b and
   existing and without a and c. *)
C5_Original ==
    C5_Scenario
      => /\ Len(output) = 3
         /\ output[1].text = "Renamed"
         /\ output[2].text = "source folder does not exist"
         /\ output[3].text = "target already exists"
         /\ {b, existing} \subseteq DOMAIN dir
         /\ a \notin DOMAIN dir
         /\ c \notin DOMAIN dir

(* C5 amended: row 1 renames a to b, row 2 is skipped for its missing source,
   and row 3 is skipped as "source folder does not exist" too, a having been
   renamed away by row 1 (the target check is not reached); the directory ends
   with b and existing and without a and c. *)
C5_Sequential ==
    C5_Scenario
      => /\ output = << PrintlnRow("Renamed", 2, a, b),
                        EprintlnRow("source folder does not exist", 3, missing, c),
                        EprintlnRow("source folder does not exist", 4, a, existing) >>
         /\ dir = [n \in (DOMAIN dir0 \ {a}) \cup {b} |-> IF n = b THEN "dir" ELSE dir0[n]]
         /\ {b, existing} \subseteq DOMAIN dir
         /\ a \notin DOMAIN dir
         /\ c \notin DOMAIN dir

C5_Witness ==
    /\ C5_Scenario
    /\ Len(output) = 3
    /\ SubDirs(dir) = {b, existing}

\* a command line that is not a use of export or import
BadInvocation(args) ==
    \/ args = <<>>
    \/ /\ args # <<>>
       /\ \/ args[1] \notin {"export", "import"}
          \/ args[1] = "export" /\ (Len(args) < 2 \/ Len(args) > 3)
          \/ args[1] = "import" /\ Len(args) # 3

(* C6 as stated: every such command line prints both usage lines, exits with
   status 1 and calls neither export nor import. *)
C6_Original ==
    (pc # "shell" /\ BadInvocation(argv))
      => /\ pc = "exited"
         /\ status = 1
         /\ output = BothUsageLines

(* C6 amended: every such command line exits with status 1 and calls neither
   export nor import; it prints both usage lines when there is no argument or
   the first one is neither export nor import, the export usage line alone for
   an export with a wrong argument count, and the import usage line alone for
   an import with a wrong argument count. *)
C6_Usage ==
    (pc # "shell" /\ BadInvocation(argv))
      => /\ pc = "exited"
         /\ status = 1
         /\ dir = dir0
         /\ files = files0
         /\ output = IF argv = <<>> THEN BothUsageLines
                     ELSE IF argv[1] = "export" THEN <<Eprintln(EXPORT_USAGE)>>
                     ELSE IF argv[1] = "import" THEN <<Eprintln(IMPORT_USAGE)>>
                     ELSE BothUsageLines

C6_Witness ==
    /\ pc = "exited"
    /\ argv = <<"export", "/D", "F", "N">>
    /\ status = 1
    /\ output = <<Eprintln(EXPORT_USAGE)>>

\* an export that ended with status 0, and the records of the file it wrote
ExportDone == pc = "exited" /\ IsExport /\ status = 0
Written == files[csvPath].records

(* C7 as stated: a successful export writes the header old_name and then, each
   once, exactly the names of the entries that are directories. *)
C7_Original ==
    (ExportDone /\ unread = {})
      => /\ Written # <<>>
         /\ Written[1] = Ok(<<old_name>>)
         /\ Len(Written) - 1 = Cardinality(SubDirs(dir))
         /\ {Written[i] : i \in 2..Len(Written)} = {Ok(<<n>>) : n \in SubDirs(dir)}

\* a name as export writes it: the invalid byte 0xFF as U+FFFD
Shown(n) == [i \in 1..Len(n) |-> IF n[i] = "xFF" THEN "uFFFD" ELSE n[i]]

(* C7 amended: a successful export writes the header old_name and then one row
   for each entry that is a directory and was read without error, holding the
   entry's name converted lossily to UTF-8; no row stands for a regular file,
   and a directory without subdirectories gives the header alone. *)
C7_ExportRows ==
    ExportDone
      => /\ Written # <<>>
         /\ Written[1] = Ok(<<old_name>>)
         /\ Len(Written) - 1 = Cardinality(SubDirs(dir) \ unread)
         /\ \E f \in [2..Len(Written) -> SubDirs(dir) \ unread] :
              /\ \A i, j \in 2..Len(Written) : f[i] = f[j] => i = j
              /\ \A i \in 2..Len(Written) : Written[i] = Ok(<<Shown(f[i])>>)
         /\ dir = dir0

C7_Witness ==
    /\ ExportDone
    /\ unread = {}
    /\ raw \in SubDirs(dir)
    /\ \E n \in DOMAIN dir : dir[n] = "file"
    /\ Written = <<Ok(<<old_name>>), Ok(<< <<"uFFFD">> >>)>>

(* C8: an export whose directory path does not exist or is not a directory
   exits with status 1 and leaves the output file as it was, neither created
   nor truncated; so does an export whose directory cannot be read. *)
C8_OutputUntouched ==
    /\ (IsExport /\ argv[2] # "/D" /\ pc \notin {"shell", "export"})
         => /\ pc = "exited"
            /\ status = 1
            /\ files = files0
            /\ dir = dir0
    /\ (IsExport /\ output # <<>> /\ output[1].text = "Failed to read directory")
         => /\ status = 1
            /\ files = files0

C8_Witness ==
    /\ pc = "exited"
    /\ argv = <<"export", "N", "F">>
    /\ status = 1
    /\ files["F"] = SampleCsv
    /\ ~files["N"].exists

(* C9: a row whose old_name or new_name is empty after trimming (blank, empty
   or missing) is skipped as "empty old_name or new_name": the directory is
   unchanged and the loop goes on with the next row. *)
C9_EmptySkipped ==
    [][(pc = "import_loop" /\ index' # index /\ CurRecord.ok
          /\ (Blank(Col(CurRecord, 1)) \/ Blank(Col(CurRecord, 2))))
         => /\ dir' = dir
            /\ files' = files
            /\ pc' = "import_loop"
            /\ index' = index + 1
            /\ output' = Append(output,
                 EprintlnRow("empty old_name or new_name", index + 2, <<>>, <<>>))]_vars

C9_Witness ==
    /\ pc = "exited"
    /\ status = 0
    /\ Len(output) = 3
    /\ output[1].text = "empty old_name or new_name"
    /\ files0[argv[3]].records[2] = Ok(<< <<" ", "\t">>, b >>)
    /\ output[2].text = "empty old_name or new_name"
    /\ files0[argv[3]].records[3] = Ok(<<a>>)
    /\ output[3].text = "Renamed"

(* C10: every step of import keeps the number of entries of the directory;
   a row changes nothing, or gives the directory named old_name the unused
   name new_name and leaves every other entry as it was. *)
C10_EntriesPreserved ==
    [][(pc \in {"import", "import_loop"})
         => /\ Cardinality(DOMAIN dir') = Cardinality(DOMAIN dir)
            /\ \/ dir' = dir
               \/ /\ RowStep
                  /\ OldName \in SubDirs(dir)
                  /\ NewName \notin DOMAIN dir
                  /\ DOMAIN dir' = (DOMAIN dir \ {OldName}) \cup {NewName}
                  /\ dir'[NewName] = "dir"
                  /\ \A n \in DOMAIN dir \ {OldName} : dir'[n] = dir[n]]_vars

C10_Witness ==
    /\ pc = "import_loop"
    /\ Len(output) = 2
    /\ output[1].text = "Renamed"
    /\ output[2].text = "Renamed"
    /\ Cardinality(DOMAIN dir) = Cardinality(DOMAIN dir0)
    /\ DOMAIN dir # DOMAIN dir0

====
